---- MODULE Spec2Model ----
(***************************************************************************)
(* Model of the directory tree printer: print_directory_tree (render) of   *)
(* src/tree_printer.rs and clear_ignore_files (sweep) of src/main.rs, over *)
(* a small file system with regular files, directories and symbolic links. *)
(*                                                                         *)
(* A path is the sequence of base names below the root (<<>> is the root). *)
(* Text is kept as strings for identity; wherever the code looks inside a  *)
(* string (ordering, trimming, formatting a line) its UTF-8 bytes are used,*)
(* taken from the table Bytes.                                             *)
(*                                                                         *)
(* Spec runs the operations on trees that can be listed, with a standard   *)
(* output that takes every write; SpecFaults adds directories that cannot  *)
(* be listed and a standard output that fails at some line.                *)
(***************************************************************************)
EXTENDS Integers, Sequences, FiniteSets, TLC

VARIABLES
  fs,       \* the file system: real path |-> node
  vcs,      \* version-control rules of the enclosing repository
  out,      \* bytes lines written to stdout by the last operation
  trace,    \* for each line of out: the path of the entry it is for
  res,      \* result of the last operation: "Ok", "Err", "Panic", or the
            \* kind of error an invalid root gives
  msg,      \* the message of the error the last operation ended with, as bytes
  removed,  \* the count reported by the last sweep
  warnings, \* the number of errors the last sweep recorded
  events,   \* what the last sweep did, in order: removals, failed removals
            \* and walk errors, each with its path
  op,       \* the last operation: "init", "render", "sweep", "edit"
  prevOut,  \* <<out>> of the render right before the last render or sweep,
            \* <<>> when no render came right before it
  call,     \* the last direct call of should_ignore or read_ignore_patterns:
            \* its arguments and what it returned
  procs     \* the renders that run concurrently, each with the line it has
            \* come to; <<>> when operations run one at a time

vars ==
  <<fs, vcs, out, trace, res, msg, removed, warnings, events, op, prevOut, call, procs>>

(***************************************************************************)
(* Text                                                                    *)
(***************************************************************************)

\* The marker file name, ".tree_ignore".
TreeIgnore == ".tree_ignore"

\* The default template written by create_default_ignore_file, as lines.
DefaultContent ==
  << "# Tree ignore patterns configuration file",
     "# This file controls which directories and files are ignored when printing the tree",
     "# Add one pattern per line (exact name matches only)",
     "# Lines starting with # are comments and will be ignored",
     "#",
     "# You can edit this file to customize which items are ignored",
     "# Use 'tree --clear' to remove this configuration file",
     "",
     "# Build and compilation outputs",
     "target",
     "build",
     "dist",
     "out",
     "",
     "# Dependencies and package managers",
     "node_modules",
     "vendor",
     ".pnpm-store",
     "",
     "# Version control",
     ".git",
     ".svn",
     ".hg",
     "",
     "# IDE and editor files",
     ".vscode",
     ".idea",
     ".idea.old",
     "*.swp",
     "*.swo",
     "*~",
     "",
     "# OS generated files",
     ".DS_Store",
     "Thumbs.db",
     "",
     "# Temporary and cache directories",
     "tmp",
     "temp",
     "cache",
     ".cache",
     "",
     "# Legacy or backup directories",
     "old_do_not_use",
     "backup" >>

\* The UTF-8 bytes of every string the model uses.
Bytes ==
  (".tree_ignore" :> <<46, 116, 114, 101, 101, 95, 105, 103, 110, 111, 114, 101>>)
  @@ (".tree_ignoreX" :> <<46, 116, 114, 101, 101, 95, 105, 103, 110, 111, 114, 101, 88>>)
  @@ ("tree_ignore" :> <<116, 114, 101, 101, 95, 105, 103, 110, 111, 114, 101>>)
  @@ ("test.tree_ignore" :> <<116, 101, 115, 116, 46, 116, 114, 101, 101, 95, 105, 103, 110, 111, 114, 101>>)
  @@ ("target" :> <<116, 97, 114, 103, 101, 116>>)
  @@ ("hidden.txt" :> <<104, 105, 100, 100, 101, 110, 46, 116, 120, 116>>)
  @@ ("visible.txt" :> <<118, 105, 115, 105, 98, 108, 101, 46, 116, 120, 116>>)
  @@ ("secret.log" :> <<115, 101, 99, 114, 101, 116, 46, 108, 111, 103>>)
  @@ ("local.cfg" :> <<108, 111, 99, 97, 108, 46, 99, 102, 103>>)
  @@ ("sub" :> <<115, 117, 98>>)
  @@ ("link" :> <<108, 105, 110, 107>>)
  @@ ("m_dir" :> <<109, 95, 100, 105, 114>>)
  @@ ("z_dir" :> <<122, 95, 100, 105, 114>>)
  @@ ("a_file.txt" :> <<97, 95, 102, 105, 108, 101, 46, 116, 120, 116>>)
  @@ ("b_file.txt" :> <<98, 95, 102, 105, 108, 101, 46, 116, 120, 116>>)
  @@ ("Zeta.txt" :> <<90, 101, 116, 97, 46, 116, 120, 116>>)
  @@ ("main.rs" :> <<109, 97, 105, 110, 46, 114, 115>>)
  @@ ("up" :> <<117, 112>>)
  @@ ("# Tree ignore patterns configuration file" :> <<35, 32, 84, 114, 101, 101, 32, 105, 103, 110, 111, 114, 101, 32, 112, 97, 116, 116, 101, 114, 110, 115, 32, 99, 111, 110, 102, 105, 103, 117, 114, 97, 116, 105, 111, 110, 32, 102, 105, 108, 101>>)
  @@ ("# This file controls which directories and files are ignored when printing the tree" :> <<35, 32, 84, 104, 105, 115, 32, 102, 105, 108, 101, 32, 99, 111, 110, 116, 114, 111, 108, 115, 32, 119, 104, 105, 99, 104, 32, 100, 105, 114, 101, 99, 116, 111, 114, 105, 101, 115, 32, 97, 110, 100, 32, 102, 105, 108, 101, 115, 32, 97, 114, 101, 32, 105, 103, 110, 111, 114, 101, 100, 32, 119, 104, 101, 110, 32, 112, 114, 105, 110, 116, 105, 110, 103, 32, 116, 104, 101, 32, 116, 114, 101, 101>>)
  @@ ("# Add one pattern per line (exact name matches only)" :> <<35, 32, 65, 100, 100, 32, 111, 110, 101, 32, 112, 97, 116, 116, 101, 114, 110, 32, 112, 101, 114, 32, 108, 105, 110, 101, 32, 40, 101, 120, 97, 99, 116, 32, 110, 97, 109, 101, 32, 109, 97, 116, 99, 104, 101, 115, 32, 111, 110, 108, 121, 41>>)
  @@ ("# Lines starting with # are comments and will be ignored" :> <<35, 32, 76, 105, 110, 101, 115, 32, 115, 116, 97, 114, 116, 105, 110, 103, 32, 119, 105, 116, 104, 32, 35, 32, 97, 114, 101, 32, 99, 111, 109, 109, 101, 110, 116, 115, 32, 97, 110, 100, 32, 119, 105, 108, 108, 32, 98, 101, 32, 105, 103, 110, 111, 114, 101, 100>>)
  @@ ("#" :> <<35>>)
  @@ ("# You can edit this file to customize which items are ignored" :> <<35, 32, 89, 111, 117, 32, 99, 97, 110, 32, 101, 100, 105, 116, 32, 116, 104, 105, 115, 32, 102, 105, 108, 101, 32, 116, 111, 32, 99, 117, 115, 116, 111, 109, 105, 122, 101, 32, 119, 104, 105, 99, 104, 32, 105, 116, 101, 109, 115, 32, 97, 114, 101, 32, 105, 103, 110, 111, 114, 101, 100>>)
  @@ ("# Use 'tree --clear' to remove this configuration file" :> <<35, 32, 85, 115, 101, 32, 39, 116, 114, 101, 101, 32, 45, 45, 99, 108, 101, 97, 114, 39, 32, 116, 111, 32, 114, 101, 109, 111, 118, 101, 32, 116, 104, 105, 115, 32, 99, 111, 110, 102, 105, 103, 117, 114, 97, 116, 105, 111, 110, 32, 102, 105, 108, 101>>)
  @@ ("" :> <<>>)
  @@ ("# Build and compilation outputs" :> <<35, 32, 66, 117, 105, 108, 100, 32, 97, 110, 100, 32, 99, 111, 109, 112, 105, 108, 97, 116, 105, 111, 110, 32, 111, 117, 116, 112, 117, 116, 115>>)
  @@ ("build" :> <<98, 117, 105, 108, 100>>)
  @@ ("dist" :> <<100, 105, 115, 116>>)
  @@ ("out" :> <<111, 117, 116>>)
  @@ ("# Dependencies and package managers" :> <<35, 32, 68, 101, 112, 101, 110, 100, 101, 110, 99, 105, 101, 115, 32, 97, 110, 100, 32, 112, 97, 99, 107, 97, 103, 101, 32, 109, 97, 110, 97, 103, 101, 114, 115>>)
  @@ ("node_modules" :> <<110, 111, 100, 101, 95, 109, 111, 100, 117, 108, 101, 115>>)
  @@ ("vendor" :> <<118, 101, 110, 100, 111, 114>>)
  @@ (".pnpm-store" :> <<46, 112, 110, 112, 109, 45, 115, 116, 111, 114, 101>>)
  @@ ("# Version control" :> <<35, 32, 86, 101, 114, 115, 105, 111, 110, 32, 99, 111, 110, 116, 114, 111, 108>>)
  @@ (".git" :> <<46, 103, 105, 116>>)
  @@ (".svn" :> <<46, 115, 118, 110>>)
  @@ (".hg" :> <<46, 104, 103>>)
  @@ ("# IDE and editor files" :> <<35, 32, 73, 68, 69, 32, 97, 110, 100, 32, 101, 100, 105, 116, 111, 114, 32, 102, 105, 108, 101, 115>>)
  @@ (".vscode" :> <<46, 118, 115, 99, 111, 100, 101>>)
  @@ (".idea" :> <<46, 105, 100, 101, 97>>)
  @@ (".idea.old" :> <<46, 105, 100, 101, 97, 46, 111, 108, 100>>)
  @@ ("*.swp" :> <<42, 46, 115, 119, 112>>)
  @@ ("*.swo" :> <<42, 46, 115, 119, 111>>)
  @@ ("*~" :> <<42, 126>>)
  @@ ("# OS generated files" :> <<35, 32, 79, 83, 32, 103, 101, 110, 101, 114, 97, 116, 101, 100, 32, 102, 105, 108, 101, 115>>)
  @@ (".DS_Store" :> <<46, 68, 83, 95, 83, 116, 111, 114, 101>>)
  @@ ("Thumbs.db" :> <<84, 104, 117, 109, 98, 115, 46, 100, 98>>)
  @@ ("# Temporary and cache directories" :> <<35, 32, 84, 101, 109, 112, 111, 114, 97, 114, 121, 32, 97, 110, 100, 32, 99, 97, 99, 104, 101, 32, 100, 105, 114, 101, 99, 116, 111, 114, 105, 101, 115>>)
  @@ ("tmp" :> <<116, 109, 112>>)
  @@ ("temp" :> <<116, 101, 109, 112>>)
  @@ ("cache" :> <<99, 97, 99, 104, 101>>)
  @@ (".cache" :> <<46, 99, 97, 99, 104, 101>>)
  @@ ("# Legacy or backup directories" :> <<35, 32, 76, 101, 103, 97, 99, 121, 32, 111, 114, 32, 98, 97, 99, 107, 117, 112, 32, 100, 105, 114, 101, 99, 116, 111, 114, 105, 101, 115>>)
  @@ ("old_do_not_use" :> <<111, 108, 100, 95, 100, 111, 95, 110, 111, 116, 95, 117, 115, 101>>)
  @@ ("backup" :> <<98, 97, 99, 107, 117, 112>>)
  @@ ("  # indented comment" :> <<32, 32, 35, 32, 105, 110, 100, 101, 110, 116, 101, 100, 32, 99, 111, 109, 109, 101, 110, 116>>)
  @@ ("visible.txt  " :> <<118, 105, 115, 105, 98, 108, 101, 46, 116, 120, 116, 32, 32>>)
  @@ ("# only comments" :> <<35, 32, 111, 110, 108, 121, 32, 99, 111, 109, 109, 101, 110, 116, 115>>)
  @@ ("/proj" :> <<47, 112, 114, 111, 106>>)
  @@ ("Created default .tree_ignore file at: /proj/.tree_ignore" :> <<67, 114, 101, 97, 116, 101, 100, 32, 100, 101, 102, 97, 117, 108, 116, 32, 46, 116, 114, 101, 101, 95, 105, 103, 110, 111, 114, 101, 32, 102, 105, 108, 101, 32, 97, 116, 58, 32, 47, 112, 114, 111, 106, 47, 46, 116, 114, 101, 101, 95, 105, 103, 110, 111, 114, 101>>)
  @@ ("You can edit this file to customize ignore patterns." :> <<89, 111, 117, 32, 99, 97, 110, 32, 101, 100, 105, 116, 32, 116, 104, 105, 115, 32, 102, 105, 108, 101, 32, 116, 111, 32, 99, 117, 115, 116, 111, 109, 105, 122, 101, 32, 105, 103, 110, 111, 114, 101, 32, 112, 97, 116, 116, 101, 114, 110, 115, 46>>)
  @@ ("proj" :> <<112, 114, 111, 106>>)
  @@ ("no_access" :> <<110, 111, 95, 97, 99, 99, 101, 115, 115>>)
  @@ ("Path '" :> <<80, 97, 116, 104, 32, 39>>)
  @@ ("' does not exist" :> <<39, 32, 100, 111, 101, 115, 32, 110, 111, 116, 32, 101, 120, 105, 115, 116>>)
  @@ ("' is not a directory" :> <<39, 32, 105, 115, 32, 110, 111, 116, 32, 97, 32, 100, 105, 114, 101, 99, 116, 111, 114, 121>>)
  @@ ("Failed to write to stdout" :> <<70, 97, 105, 108, 101, 100, 32, 116, 111, 32, 119, 114, 105, 116, 101, 32, 116, 111, 32, 115, 116, 100, 111, 117, 116>>)
  @@ ("Failed to write to output" :> <<70, 97, 105, 108, 101, 100, 32, 116, 111, 32, 119, 114, 105, 116, 101, 32, 116, 111, 32, 111, 117, 116, 112, 117, 116>>)
  @@ ("Failed to read directory" :> <<70, 97, 105, 108, 101, 100, 32, 116, 111, 32, 114, 101, 97, 100, 32, 100, 105, 114, 101, 99, 116, 111, 114, 121>>)
  @@ ("Failed to read ignore file: " :> <<70, 97, 105, 108, 101, 100, 32, 116, 111, 32, 114, 101, 97, 100, 32, 105, 103, 110, 111, 114, 101, 32, 102, 105, 108, 101, 58, 32>>)
  @@ ("Failed to create ignore file: " :> <<70, 97, 105, 108, 101, 100, 32, 116, 111, 32, 99, 114, 101, 97, 116, 101, 32, 105, 103, 110, 111, 114, 101, 32, 102, 105, 108, 101, 58, 32>>)
  @@ ("/" :> <<47>>)
  @@ ("failed printing to stdout" :> <<102, 97, 105, 108, 101, 100, 32, 112, 114, 105, 110, 116, 105, 110, 103, 32, 116, 111, 32, 115, 116, 100, 111, 117, 116>>)
  @@ ("Path '/proj' does not exist" :> <<80, 97, 116, 104, 32, 39, 47, 112, 114, 111, 106, 39, 32, 100, 111, 101, 115, 32, 110, 111, 116, 32, 101, 120, 105, 115, 116>>)
  @@ ("Path '/proj' is not a directory" :> <<80, 97, 116, 104, 32, 39, 47, 112, 114, 111, 106, 39, 32, 105, 115, 32, 110, 111, 116, 32, 97, 32, 100, 105, 114, 101, 99, 116, 111, 114, 121>>)
  @@ (".." :> <<46, 46>>)
  @@ ("ext" :> <<101, 120, 116>>)
  @@ ("away" :> <<97, 119, 97, 121>>)
  @@ ("keep.cfg" :> <<107, 101, 101, 112, 46, 99, 102, 103>>)
  @@ ("foo.swp" :> <<102, 111, 111, 46, 115, 119, 112>>)
  @@ ("Foo.swp" :> <<70, 111, 111, 46, 115, 119, 112>>)
  @@ ("Target" :> <<84, 97, 114, 103, 101, 116>>)
  @@ (" target" :> <<32, 116, 97, 114, 103, 101, 116>>)
  @@ ("   " :> <<32, 32, 32>>)
  @@ ("a b" :> <<97, 32, 98>>)
  @@ ("target # build" :> <<116, 97, 114, 103, 101, 116, 32, 35, 32, 98, 117, 105, 108, 100>>)

\* The root path as the caller gave it; path.display() prints it.
RootDisplay == "/proj"

\* The two lines create_default_ignore_file prints to stdout.
CreatedNotice ==
  << Bytes["Created default .tree_ignore file at: /proj/.tree_ignore"],
     Bytes["You can edit this file to customize ignore patterns."] >>

\* Connectors and continuations: U+2514 U+2500 U+2500 space, four spaces,
\* U+251C U+2500 U+2500 space, U+2502 and three spaces.
ConnLast == <<226, 148, 148, 226, 148, 128, 226, 148, 128, 32>>
NextLast == <<32, 32, 32, 32>>
ConnMid  == <<226, 148, 156, 226, 148, 128, 226, 148, 128, 32>>
NextMid  == <<226, 148, 130, 32, 32, 32>>

Last(s) == s[Len(s)]
Front(s) == SubSeq(s, 1, Len(s) - 1)

\* Ord::cmp on OsString: byte-wise lexicographic, a proper prefix is less.
RECURSIVE LexLess(_, _)
LexLess(a, b) ==
  IF b = <<>> THEN FALSE
  ELSE IF a = <<>> THEN TRUE
  ELSE IF Head(a) # Head(b) THEN Head(a) < Head(b)
  ELSE LexLess(Tail(a), Tail(b))

\* char::is_whitespace on the bytes that occur: tab, LF, VT, FF, CR, space.
IsSpace(c) == c \in {9, 10, 11, 12, 13, 32}

RECURSIVE TrimStart(_)
TrimStart(b) ==
  IF b # <<>> /\ IsSpace(Head(b)) THEN TrimStart(Tail(b)) ELSE b

RECURSIVE TrimEnd(_)
TrimEnd(b) ==
  IF b # <<>> /\ IsSpace(Last(b)) THEN TrimEnd(Front(b)) ELSE b

\* Trim removing leading whitespace only.
Trim_StartOnly(b) == TrimStart(b)

\* str::trim
Trim(b) == TrimEnd(TrimStart(b))

\* The filter of read_ignore_patterns: not empty and not starting with '#'.
IsPatternLine(b) == b # <<>> /\ Head(b) # 35

(***************************************************************************)
(* The file system                                                         *)
(***************************************************************************)

\* How many symbolic links one path resolution follows before it fails
\* with ELOOP.
MaxSymlinks == 2

\* A node: deletable says whether unlinking it is permitted, readable
\* whether listing it (a directory) is.
File(c, d) ==
  [kind |-> "file", content |-> c, target |-> <<>>, deletable |-> d, readable |-> TRUE]
Dir ==
  [kind |-> "dir", content |-> <<>>, target |-> <<>>, deletable |-> TRUE, readable |-> TRUE]
Link(t, d) ==
  [kind |-> "symlink", content |-> <<>>, target |-> t, deletable |-> d, readable |-> TRUE]
\* A directory whose entries may not be listed (permission denied).
DeniedDir ==
  [kind |-> "dir", content |-> <<>>, target |-> <<>>, deletable |-> TRUE, readable |-> FALSE]

NoPath == [ok |-> FALSE, path |-> <<>>]

\* Path resolution as the OS does it for stat/open: cur is a real directory,
\* rest the components still to walk; every symbolic link met is followed.
RECURSIVE ResolveFrom(_, _, _, _)
ResolveFrom(f, cur, rest, hops) ==
  IF rest = <<>> THEN [ok |-> TRUE, path |-> cur]
  ELSE LET nxt == Append(cur, Head(rest)) IN
       IF nxt \notin DOMAIN f THEN NoPath
       ELSE IF f[nxt].kind = "symlink"
            THEN IF hops = 0 THEN NoPath
                 ELSE ResolveFrom(f, <<>>, f[nxt].target \o Tail(rest), hops - 1)
       ELSE IF f[nxt].kind = "dir" \/ Tail(rest) = <<>>
            THEN ResolveFrom(f, nxt, Tail(rest), hops)
       ELSE NoPath

Resolve(f, p) ==
  IF <<>> \notin DOMAIN f THEN NoPath ELSE ResolveFrom(f, <<>>, p, MaxSymlinks)

\* Path::exists and Path::is_dir: both follow symbolic links.
Exists(f, p) == Resolve(f, p).ok
IsDir(f, p) == LET r == Resolve(f, p) IN r.ok /\ f[r.path].kind = "dir"

\* The name under which the parent of the root is reached from the root;
\* what lies outside the tree of the root has a path that starts with it.
Up == ".."

\* The entries directly inside the real directory d; "..", which no
\* listing of a directory yields, is not among them.
Children(f, d) ==
  {p \in DOMAIN f : Len(p) = Len(d) + 1 /\ SubSeq(p, 1, Len(d)) = d /\ Last(p) # Up}

\* fs::read_dir(p): the entries of the directory p resolves to, each as
\* p joined with the entry's name, in the order ord of the names (the order
\* of read_dir is not specified); fails when p is no directory or may not be
\* listed.
ReadDir(f, p, ord) ==
  LET r == Resolve(f, p) IN
  IF ~(r.ok /\ f[r.path].kind = "dir" /\ f[r.path].readable)
  THEN [ok |-> FALSE, entries |-> <<>>]
  ELSE LET here == SelectSeq(ord, LAMBDA n : Append(r.path, n) \in DOMAIN f)
       IN [ok |-> TRUE, entries |-> [i \in 1..Len(here) |-> Append(p, here[i])]]

\* fs::write(p, c): creates or truncates the file p names, through a final
\* symbolic link; fails when the parent is no directory or p is a directory.
WriteFile(f, p, c) ==
  LET real == IF p \in DOMAIN f /\ f[p].kind = "symlink" THEN f[p].target ELSE p
      par  == Resolve(f, Front(real))
      dest == Append(par.path, Last(real))
  IN IF ~(par.ok /\ f[par.path].kind = "dir") THEN [ok |-> FALSE, fs |-> f]
     ELSE IF dest \in DOMAIN f /\ f[dest].kind # "file" THEN [ok |-> FALSE, fs |-> f]
     ELSE [ok |-> TRUE, fs |-> (dest :> File(c, TRUE)) @@ f]

\* File::create(p) failing when p exists (create_new).
CreateTruncate_Exclusive(f, p) ==
  IF Exists(f, p) \/ p \in DOMAIN f THEN [ok |-> FALSE, fs |-> f]
  ELSE WriteFile(f, p, <<>>)

\* File::create(p), the first half of fs::write: the file is created, or
\* emptied when it exists.
CreateTruncate(f, p) == WriteFile(f, p, <<>>)

\* fs::read_to_string(p): the lines of the file p resolves to; fails when p
\* does not resolve to a regular file.
ReadToString(f, p) ==
  LET r == Resolve(f, p) IN
  IF r.ok /\ f[r.path].kind = "file" THEN [ok |-> TRUE, lines |-> f[r.path].content]
  ELSE [ok |-> FALSE, lines |-> <<>>]

\* fs::remove_file(p): unlinks a regular file or a symbolic link (the link,
\* not its target) in the directory the parent of p resolves to; fails on a
\* directory and on an entry that may not be unlinked.
RemoveFile(f, p) ==
  LET par  == Resolve(f, Front(p))
      real == Append(par.path, Last(p))
  IN IF p # <<>> /\ par.ok /\ real \in DOMAIN f
          /\ f[real].kind # "dir" /\ f[real].deletable
     THEN [ok |-> TRUE, fs |-> [q \in DOMAIN f \ {real} |-> f[q]]]
     ELSE [ok |-> FALSE, fs |-> f]

(***************************************************************************)
(* Render: print_directory_tree                                            *)
(***************************************************************************)

\* should_ignore taking a pattern that starts with * for a glob: the name
\* ends with what follows the *.
should_ignore_Glob(name, ignore_patterns) ==
  \E i \in 1..Len(ignore_patterns) :
    LET pat == ignore_patterns[i]
        n   == Bytes[name]
    IN \/ pat = n
       \/ /\ pat # <<>>
          /\ Head(pat) = 42
          /\ Len(n) >= Len(pat) - 1
          /\ SubSeq(n, Len(n) - Len(pat) + 2, Len(n)) = Tail(pat)

\* should_ignore: the entry's base name equals one of the patterns.
should_ignore(name, ignore_patterns) ==
  \E i \in 1..Len(ignore_patterns) : ignore_patterns[i] = Bytes[name]

\* Path::display of the path p below the root.
RECURSIVE Display(_)
Display(p) ==
  IF p = <<>> THEN Bytes[RootDisplay]
  ELSE Display(Front(p)) \o Bytes["/"] \o Bytes[Last(p)]

\* read_ignore_patterns taking a file that cannot be read for an empty one.
read_ignore_patterns_Lenient(f, base) ==
  LET content == ReadToString(f, Append(base, TreeIgnore))
  IN [ok |-> TRUE,
      patterns |-> SelectSeq([i \in 1..Len(content.lines) |->
                                Trim(Bytes[content.lines[i]])],
                             IsPatternLine)]

\* read_ignore_patterns: no patterns when base/.tree_ignore does not exist,
\* else its trimmed lines that are neither empty nor comments, in file order.
read_ignore_patterns(f, base) ==
  LET ignore_file_path == Append(base, TreeIgnore)
      content == ReadToString(f, ignore_file_path)
  IN IF ~Exists(f, ignore_file_path) THEN [ok |-> TRUE, patterns |-> <<>>]
     ELSE IF ~content.ok THEN [ok |-> FALSE, patterns |-> <<>>]
     ELSE [ok |-> TRUE,
           patterns |-> SelectSeq([i \in 1..Len(content.lines) |->
                                     Trim(Bytes[content.lines[i]])],
                                  IsPatternLine)]

\* What an operation has written so far, and whether it is still running
\* without an error.
OkNone == [ok |-> TRUE, out |-> <<>>, trace |-> <<>>, msg |-> <<>>]
Failed(m) == [ok |-> FALSE, out |-> <<>>, trace |-> <<>>, msg |-> m]
Wrote(line, what) == [ok |-> TRUE, out |-> <<line>>, trace |-> <<what>>, msg |-> <<>>]

\* a, then b unless a failed (the ? operator).
Then(a, b) ==
  IF a.ok THEN [ok |-> b.ok, out |-> a.out \o b.out, trace |-> a.trace \o b.trace,
                msg |-> b.msg]
  ELSE a

HeaderMark == [kind |-> "header", path |-> <<>>]
NoticeMark == [kind |-> "notice", path |-> <<>>]
EntryMark(p) == [kind |-> "entry", path |-> p]

\* create_default_ignore_file losing the last line of the template.
create_default_ignore_file_Truncated(f, base) ==
  LET w == WriteFile(f, Append(base, TreeIgnore), Front(DefaultContent)) IN
  IF w.ok THEN [ok |-> TRUE, fs |-> w.fs, out |-> CreatedNotice,
                trace |-> <<NoticeMark, NoticeMark>>, msg |-> <<>>]
  ELSE [ok |-> FALSE, fs |-> f, out |-> <<>>, trace |-> <<>>,
        msg |-> Bytes["Failed to create ignore file: "]
                  \o Display(Append(base, TreeIgnore))]

\* create_default_ignore_file: writes the template to base/.tree_ignore and
\* prints the two notice lines to stdout.
create_default_ignore_file(f, base) ==
  LET w == WriteFile(f, Append(base, TreeIgnore), DefaultContent) IN
  IF w.ok THEN [ok |-> TRUE, fs |-> w.fs, out |-> CreatedNotice,
                trace |-> <<NoticeMark, NoticeMark>>, msg |-> <<>>]
  ELSE [ok |-> FALSE, fs |-> f, out |-> <<>>, trace |-> <<>>,
        msg |-> Bytes["Failed to create ignore file: "]
                  \o Display(Append(base, TreeIgnore))]

\* Whether the walker's standard filters skip an entry of this name: the
\* rules of .gitignore files apply when git_ignore is on, those of the
\* repository's exclude list (git_exclude, on by default) always; both only
\* inside a repository (require_git). The verdict of .gitignore comes
\* before that of the exclude list: a name its rules whitelist (!name) is
\* not skipped when git_ignore is on.
VcsIgnored(v, name, git_ignore) ==
  /\ v.repo
  /\ IF git_ignore /\ name \in v.whitelist THEN FALSE
     ELSE (git_ignore /\ name \in v.gitignore) \/ name \in v.exclude

\* The paths a WalkBuilder walk yields from p down: p itself, and below a
\* directory every entry that is neither skipped by the standard filters nor
\* rejected by filter_entry; symbolic links are yielded, not followed. The
\* error of a directory that cannot be listed is dropped (filter_map ok).
\* The path the walk starts from (depth 0) is never skipped.
RECURSIVE Walk(_, _, _, _, _, _)
Walk(f, v, p, git_ignore, filtered, patterns) ==
  {p} \cup
    (IF f[p].kind = "dir" /\ f[p].readable
     THEN UNION { Walk(f, v, c, git_ignore, filtered, patterns) :
                  c \in {c \in Children(f, p) :
                           /\ ~VcsIgnored(v, Last(c), git_ignore)
                           /\ (filtered => ~should_ignore(Last(c), patterns))} }
     ELSE {})

\* EntryLess without the directories-first arms.
EntryLess_ByNameOnly(f, a, b) == LexLess(Bytes[Last(a)], Bytes[Last(b)])

\* The comparator of entries.sort_by: Less when a is a directory and b is
\* not, Greater the other way round, else the order of the file names.
EntryLess(f, a, b) ==
  LET a_is_dir == IsDir(f, a)
      b_is_dir == IsDir(f, b)
  IN IF a_is_dir /\ ~b_is_dir THEN TRUE
     ELSE IF ~a_is_dir /\ b_is_dir THEN FALSE
     ELSE LexLess(Bytes[Last(a)], Bytes[Last(b)])

RECURSIVE InsertSorted(_, _, _)
InsertSorted(f, e, s) ==
  IF s = <<>> THEN <<e>>
  ELSE IF EntryLess(f, e, Head(s)) THEN <<e>> \o s
  ELSE <<Head(s)>> \o InsertSorted(f, e, Tail(s))

\* entries.sort_by(...): a stable sort.
RECURSIVE SortEntries(_, _)
SortEntries(f, s) ==
  IF s = <<>> THEN <<>>
  ELSE InsertSorted(f, Last(s), SortEntries(f, Front(s)))

\* print_directory_tree_recursive_short: nothing for an ignored path; else
\* the entries of read_dir not in ignored_paths, sorted, one line each, and
\* below each entry that is a directory its own tree.
RECURSIVE PrintEntries(_, _, _, _, _, _)
RECURSIVE print_directory_tree_recursive_short(_, _, _, _, _)

\* print_directory_tree_recursive_short applying, in each directory, also
\* the patterns of that directory's own .tree_ignore.
print_directory_tree_recursive_short_PerDirectory(f, path, prefix, ignored_paths, ord) ==
  LET rd == ReadDir(f, path, ord)
      own == read_ignore_patterns(f, path).patterns
  IN IF path \in ignored_paths THEN OkNone
     ELSE IF ~rd.ok THEN Failed(Bytes["Failed to read directory"])
     ELSE PrintEntries(f, SortEntries(f, SelectSeq(rd.entries,
                            LAMBDA e : e \notin ignored_paths
                                         /\ ~should_ignore(Last(e), own))),
                       1, prefix, ignored_paths, ord)

print_directory_tree_recursive_short(f, path, prefix, ignored_paths, ord) ==
  LET rd == ReadDir(f, path, ord) IN
  IF path \in ignored_paths THEN OkNone
  ELSE IF ~rd.ok THEN Failed(Bytes["Failed to read directory"])
  ELSE PrintEntries(f, SortEntries(f, SelectSeq(rd.entries,
                                                LAMBDA e : e \notin ignored_paths)),
                    1, prefix, ignored_paths, ord)

\* EntryLine with the branch connector for every entry.
EntryLine_AlwaysBranch(prefix, is_last, file_name) ==
  prefix \o ConnMid \o Bytes[file_name]

\* The line written for one entry: prefix, connector, file name.
EntryLine(prefix, is_last, file_name) ==
  prefix \o (IF is_last THEN ConnLast ELSE ConnMid) \o Bytes[file_name]

\* The loop over the sorted entries, from the i-th on.
PrintEntries(f, entries, i, prefix, ignored_paths, ord) ==
  IF i > Len(entries) THEN OkNone
  ELSE Then(Then(Wrote(EntryLine(prefix, i = Len(entries), Last(entries[i])),
                       EntryMark(entries[i])),
                 IF IsDir(f, entries[i])
                 THEN print_directory_tree_recursive_short(
                        f, entries[i],
                        prefix \o (IF i = Len(entries) THEN NextLast ELSE NextMid),
                        ignored_paths, ord)
                 ELSE OkNone),
            PrintEntries(f, entries, i + 1, prefix, ignored_paths, ord))

\* PrintFiltered applying the filters to the root as to any other entry.
PrintFiltered_FiltersRoot(f, v, ignore_patterns, ord) ==
  LET skip == should_ignore("proj", ignore_patterns) \/ VcsIgnored(v, "proj", TRUE)
      filtered_entries == IF skip THEN {}
                          ELSE Walk(f, v, <<>>, TRUE, TRUE, ignore_patterns)
      all_entries == Walk(f, v, <<>>, FALSE, FALSE, <<>>)
      diff == (all_entries \ filtered_entries) \cup (filtered_entries \ all_entries)
  IN print_directory_tree_recursive_short(f, <<>>, <<>>, diff, ord)

\* Lines 194-224: the filtered walk, the walk that is meant to be
\* unfiltered, their symmetric difference as the ignored paths, the tree.
PrintFiltered(f, v, ignore_patterns, ord) ==
  LET filtered_entries == Walk(f, v, <<>>, TRUE, TRUE, ignore_patterns)
      all_entries == Walk(f, v, <<>>, FALSE, FALSE, <<>>)
      diff == (all_entries \ filtered_entries) \cup (filtered_entries \ all_entries)
  IN print_directory_tree_recursive_short(f, <<>>, <<>>, diff, ord)

\* EnsureIgnoreFile without its existence check.
EnsureIgnoreFile_Always(f) == create_default_ignore_file(f, <<>>)

\* Lines 185-189: the default file is created when the marker does not exist.
EnsureIgnoreFile(f) ==
  IF ~Exists(f, <<TreeIgnore>>) THEN create_default_ignore_file(f, <<>>)
  ELSE [ok |-> TRUE, fs |-> f, out |-> <<>>, trace |-> <<>>, msg |-> <<>>]

\* Lines 191-226 on the file system f the creation left.
PrintBody(f, v, ord) ==
  LET rp == read_ignore_patterns(f, <<>>) IN
  IF ~rp.ok
  THEN Failed(Bytes["Failed to read ignore file: "] \o Display(<<TreeIgnore>>))
  ELSE PrintFiltered(f, v, rp.patterns, ord)

\* print_directory_tree: header, default file, patterns, tree.
print_directory_tree(f, v, ord) ==
  Then(Wrote(Bytes[RootDisplay], HeaderMark),
       Then([ok |-> EnsureIgnoreFile(f).ok, out |-> EnsureIgnoreFile(f).out,
             trace |-> EnsureIgnoreFile(f).trace, msg |-> EnsureIgnoreFile(f).msg],
            PrintBody(EnsureIgnoreFile(f).fs, v, ord)))

(***************************************************************************)
(* Sweep: clear_ignore_files                                               *)
(***************************************************************************)

\* Path::file_name; the root's own name is the last component of /proj.
FileName(p) == IF p = <<>> THEN "proj" ELSE Last(p)

\* IsMarkerName as a prefix test.
IsMarkerName_Prefix(name) == name \in {".tree_ignore", ".tree_ignoreX"}

\* The test of line 68.
IsMarkerName(name) == name = TreeIgnore

\* What the walk hands to the loop: an entry, or the error of a directory
\* that could not be listed.
Yield(p) == [err |-> FALSE, path |-> p]
WalkError(p) == [err |-> TRUE, path |-> p]

\* WalkDir with follow_links(true): a symbolic link to a directory is walked
\* like a directory, unless it leads back to a directory above it, for
\* which the walk yields an error.
RECURSIVE WalkDir_FollowsLinks(_, _, _)
RECURSIVE WalkDirEach_FollowsLinks(_, _, _, _)
WalkDirEach_FollowsLinks(f, entries, i, ord) ==
  IF i > Len(entries) THEN <<>>
  ELSE WalkDir_FollowsLinks(f, entries[i], ord)
         \o WalkDirEach_FollowsLinks(f, entries, i + 1, ord)

WalkDir_FollowsLinks(f, p, ord) ==
  <<Yield(p)>> \o
    (IF ~IsDir(f, p) THEN <<>>
     ELSE IF \E k \in 0..(Len(p) - 1) :
               Resolve(f, SubSeq(p, 1, k)).path = Resolve(f, p).path
          THEN <<WalkError(p)>>
     ELSE IF ~f[Resolve(f, p).path].readable THEN <<WalkError(p)>>
     ELSE WalkDirEach_FollowsLinks(f, ReadDir(f, p, ord).entries, 1, ord))

\* walkdir::WalkDir::new(p).follow_links(false): p, then below a directory
\* its entries in read_dir order, each followed by its own contents;
\* symbolic links are yielded and not followed. A directory that cannot be
\* listed is yielded, and after it the error of listing it.
RECURSIVE WalkDir(_, _, _)
RECURSIVE WalkDirEach(_, _, _, _)
WalkDir(f, p, ord) ==
  <<Yield(p)>> \o (IF f[p].kind # "dir" THEN <<>>
                   ELSE IF ~f[p].readable THEN <<WalkError(p)>>
                   ELSE WalkDirEach(f, ReadDir(f, p, ord).entries, 1, ord))

WalkDirEach(f, entries, i, ord) ==
  IF i > Len(entries) THEN <<>>
  ELSE WalkDir(f, entries[i], ord) \o WalkDirEach(f, entries, i + 1, ord)

\* One thing the sweep did: "removed" (line 71), "failed" (lines 75-77) or
\* "walk_error" (lines 83-85).
Event(what, p) == [what |-> what, path |-> p]

\* SweepStep counting a removal that failed as a removal.
SweepStep_CountsAttempts(st, entry) ==
  IF entry.err
  THEN [st EXCEPT !.errors = @ + 1,
                  !.events = Append(@, Event("walk_error", entry.path))]
  ELSE IF IsMarkerName(FileName(entry.path))
  THEN IF RemoveFile(st.fs, entry.path).ok
       THEN [fs |-> RemoveFile(st.fs, entry.path).fs, count |-> st.count + 1,
             errors |-> st.errors,
             events |-> Append(st.events, Event("removed", entry.path))]
       ELSE [st EXCEPT !.count = @ + 1, !.errors = @ + 1,
                       !.events = Append(@, Event("failed", entry.path))]
  ELSE st

\* SweepStep dropping the errors of the walk (filter_map ok).
SweepStep_DropsWalkErrors(st, entry) ==
  IF entry.err THEN st
  ELSE IF IsMarkerName(FileName(entry.path))
  THEN IF RemoveFile(st.fs, entry.path).ok
       THEN [fs |-> RemoveFile(st.fs, entry.path).fs, count |-> st.count + 1,
             errors |-> st.errors,
             events |-> Append(st.events, Event("removed", entry.path))]
       ELSE [st EXCEPT !.errors = @ + 1,
                       !.events = Append(@, Event("failed", entry.path))]
  ELSE st

\* The body of the for loop (lines 58-88) on one item of the walk: a marker
\* is removed and counted, a removal that fails and an error of the walk
\* are recorded in errors, and the loop goes on.
SweepStep(st, entry) ==
  IF entry.err
  THEN [st EXCEPT !.errors = @ + 1,
                  !.events = Append(@, Event("walk_error", entry.path))]
  ELSE IF IsMarkerName(FileName(entry.path))
  THEN IF RemoveFile(st.fs, entry.path).ok
       THEN [fs |-> RemoveFile(st.fs, entry.path).fs, count |-> st.count + 1,
             errors |-> st.errors,
             events |-> Append(st.events, Event("removed", entry.path))]
       ELSE [st EXCEPT !.errors = @ + 1,
                       !.events = Append(@, Event("failed", entry.path))]
  ELSE st

\* SweepEntries leaving the loop at the first recorded error.
RECURSIVE SweepEntries_StopsAtError(_, _, _)
SweepEntries_StopsAtError(st, entries, i) ==
  IF i > Len(entries) \/ st.errors > 0 THEN st
  ELSE SweepEntries_StopsAtError(SweepStep(st, entries[i]), entries, i + 1)

\* The for loop from the i-th item of the walk on.
RECURSIVE SweepEntries(_, _, _)
SweepEntries(st, entries, i) ==
  IF i > Len(entries) THEN st
  ELSE SweepEntries(SweepStep(st, entries[i]), entries, i + 1)

\* Lines 51-53.
SweepStart(f) == [fs |-> f, count |-> 0, errors |-> 0, events |-> <<>>]

\* clear_ignore_files walking only what lies below the root's entries.
clear_ignore_files_BelowTopLevel(f, ord) ==
  SweepEntries(SweepStart(f),
               SelectSeq(WalkDir(f, <<>>, ord), LAMBDA e : Len(e.path) # 1), 1)

\* clear_ignore_files on a valid root.
clear_ignore_files(f, ord) == SweepEntries(SweepStart(f), WalkDir(f, <<>>, ord), 1)

\* ValidRoot asking only whether the root exists.
ValidRoot_ExistsOnly(f) == Exists(f, <<>>)

\* The validation of run_app and of clear_ignore_files: the root exists and
\* is a directory.
ValidRoot(f) == Exists(f, <<>>) /\ IsDir(f, <<>>)

(***************************************************************************)
(* The trees the operations are run on                                     *)
(***************************************************************************)

\* The order in which read_dir lists names is not specified: the model
\* lets every operation see one of two opposite orders.
NameOrder ==
  << "b_file.txt", "a_file.txt", "z_dir", "m_dir", "no_access", "away", "Zeta.txt",
     "main.rs", "keep.cfg",
     "hidden.txt", "visible.txt", "sub", "target", "link", "secret.log",
     "local.cfg", "tree_ignore", ".tree_ignoreX", "test.tree_ignore",
     ".tree_ignore", "up" >>

Reverse(s) == [i \in 1..Len(s) |-> s[Len(s) + 1 - i]]

ReadDirOrders == {NameOrder, Reverse(NameOrder)}

Text == <<"target">>

\* Groups of entries, after the trees the repository's tests build; link
\* adds a symbolic link to a directory and one that closes a cycle, locked a
\* marker file that cannot be unlinked, denied (used by InitFaults) a
\* directory that cannot be listed, with a marker inside, outside (used by
\* InitLinks) a directory beside the root, with a marker inside, and a
\* symbolic link to it in the root, deep (used by InitLinks) a marker three
\* levels below the root.
Features == {"sort", "hidden", "link", "vcs", "similar", "nested", "locked"}

FeatureEntries(k) ==
  CASE k = "sort" ->
         { << <<"b_file.txt">>, File(Text, TRUE) >>,
           << <<"a_file.txt">>, File(Text, TRUE) >>,
           << <<"Zeta.txt">>, File(Text, TRUE) >>,
           << <<"z_dir">>, Dir >>,
           << <<"m_dir">>, Dir >>,
           << <<"z_dir", "main.rs">>, File(Text, TRUE) >> }
    [] k = "hidden" ->
         { << <<"hidden.txt">>, File(Text, TRUE) >>,
           << <<"visible.txt">>, File(Text, TRUE) >>,
           << <<"sub">>, Dir >>,
           << <<"sub", "target">>, Dir >>,
           << <<"sub", "target", "main.rs">>, File(Text, TRUE) >> }
    [] k = "link" ->
         { << <<"sub">>, Dir >>,
           << <<"sub", "hidden.txt">>, File(Text, TRUE) >>,
           << <<"sub", "up">>, Link(<<"sub">>, TRUE) >>,
           << <<"link">>, Link(<<"sub">>, TRUE) >> }
    [] k = "vcs" ->
         { << <<"secret.log">>, File(Text, TRUE) >>,
           << <<"local.cfg">>, File(Text, TRUE) >>,
           << <<"keep.cfg">>, File(Text, TRUE) >>,
           << <<"sub">>, Dir >>,
           << <<"sub", "secret.log">>, File(Text, TRUE) >> }
    [] k = "similar" ->
         { << <<"tree_ignore">>, File(Text, TRUE) >>,
           << <<".tree_ignoreX">>, File(Text, TRUE) >>,
           << <<"test.tree_ignore">>, File(Text, TRUE) >> }
    [] k = "nested" ->
         { << <<"sub">>, Dir >>,
           << <<"sub", ".tree_ignore">>,
              File(<<"visible.txt", "target", "hidden.txt">>, TRUE) >>,
           << <<"m_dir">>, Dir >>,
           << <<"m_dir", ".tree_ignore">>, File(Text, TRUE) >> }
    [] k = "locked" ->
         { << <<"z_dir">>, Dir >>,
           << <<"z_dir", ".tree_ignore">>, File(Text, FALSE) >> }
    [] k = "outside" ->
         { << <<Up>>, Dir >>,
           << <<Up, "ext">>, Dir >>,
           << <<Up, "ext", ".tree_ignore">>, File(Text, TRUE) >>,
           << <<"away">>, Link(<<Up, "ext">>, TRUE) >> }
    [] k = "deep" ->
         { << <<"m_dir">>, Dir >>,
           << <<"m_dir", "z_dir">>, Dir >>,
           << <<"m_dir", "z_dir", ".tree_ignore">>, File(Text, TRUE) >> }
    [] k = "denied" ->
         { << <<"no_access">>, DeniedDir >>,
           << <<"no_access", ".tree_ignore">>, File(Text, TRUE) >> }

\* What the root holds under the marker's name.
RootMarkers == {"absent", "default", "custom", "messy", "dir", "symlink"}

\* The last line is the base name of the root itself.
MessyContent == <<"  # indented comment", "visible.txt  ", "", "target", "proj">>

MarkerEntries(m) ==
  CASE m = "absent" -> {}
    [] m = "default" -> { << <<".tree_ignore">>, File(DefaultContent, TRUE) >> }
    [] m = "custom" -> { << <<".tree_ignore">>, File(<<"hidden.txt">>, TRUE) >> }
    [] m = "messy" -> { << <<".tree_ignore">>, File(MessyContent, TRUE) >> }
    [] m = "dir" -> { << <<".tree_ignore">>, Dir >>,
                      << <<".tree_ignore", ".tree_ignore">>, File(Text, TRUE) >> }
    [] m = "symlink" -> { << <<".tree_ignore">>, Link(<<"sub", "hidden.txt">>, TRUE) >> }

\* The file system holding the root directory and the given entries.
MakeFs(entries) ==
  LET all == entries \cup { << <<>>, Dir >> } IN
  [p \in {e[1] : e \in all} |-> (CHOOSE e \in all : e[1] = p)[2]]

NoRepo == [repo |-> FALSE, gitignore |-> {}, whitelist |-> {}, exclude |-> {}]
\* The root lies in a repository whose .gitignore lists secret.log and the
\* base name of the root itself and whitelists keep.cfg (!keep.cfg), and
\* whose .git/info/exclude lists local.cfg and keep.cfg.
Repo ==
  [repo |-> TRUE, gitignore |-> {"secret.log", "proj"}, whitelist |-> {"keep.cfg"},
   exclude |-> {"local.cfg", "keep.cfg"}]

\* A root that is a regular file, and a root that does not exist.
FileRoot == (<<>> :> File(Text, TRUE))
MissingRoot == [p \in {} |-> Dir]

\* What a manual edit may leave in the root's marker file.
EditContents == { <<"hidden.txt">>, <<"sub">> }

\* No helper has been called directly.
NoCall ==
  [fn |-> "none", name |-> "", patterns |-> <<>>, present |-> FALSE,
   lines |-> <<>>, ok |-> TRUE, hit |-> FALSE, returned |-> <<>>]

\* The state before the first operation.
Fresh ==
  /\ out = <<>>
  /\ trace = <<>>
  /\ res = "Ok"
  /\ msg = <<>>
  /\ removed = 0
  /\ warnings = 0
  /\ events = <<>>
  /\ op = "init"
  /\ prevOut = <<>>
  /\ call = NoCall
  /\ procs = <<>>

Init ==
  /\ \/ \E S \in SUBSET Features, m \in RootMarkers :
          /\ fs = MakeFs(MarkerEntries(m) \cup UNION {FeatureEntries(k) : k \in S})
          /\ vcs = IF "vcs" \in S THEN Repo ELSE NoRepo
     \/ fs \in {FileRoot, MissingRoot} /\ vcs = NoRepo
  /\ Fresh

\* The trees on which failures of listing and of writing are looked at.
FaultFeatures == {"hidden", "nested", "locked", "denied"}
FaultMarkers == {"absent", "custom", "dir"}

InitFaults ==
  /\ \E S \in SUBSET FaultFeatures, m \in FaultMarkers :
       fs = MakeFs(MarkerEntries(m) \cup UNION {FeatureEntries(k) : k \in S})
  /\ vcs = NoRepo
  /\ Fresh

\* The trees on which symbolic links to directories inside and outside the
\* root, and a cycle of links, are looked at.
LinkFeatures == {"link", "nested", "outside", "deep"}
LinkMarkers == {"absent", "default", "symlink"}

InitLinks ==
  /\ \E S \in SUBSET LinkFeatures, m \in LinkMarkers :
       fs = MakeFs(MarkerEntries(m) \cup UNION {FeatureEntries(k) : k \in S})
  /\ vcs = NoRepo
  /\ Fresh

(***************************************************************************)
(* The operations                                                          *)
(***************************************************************************)

\* How many writes a failing sink takes at most before it fails.
MaxAccepted == 4

\* Standard output: a sink that takes every write, or one that takes
\* `after` lines and fails the write of the next.
GoodSink == [fails |-> FALSE, after |-> 0]
FailingSinks == {[fails |-> TRUE, after |-> n] : n \in 0..MaxAccepted}

\* The outcome of print_directory_tree on the sink: r is its run on a sink
\* that takes every write, created what lines 185-189 did to the file
\* system f. When the sink fails the write of a line, the lines before it
\* stay written and the run ends there: writeln! (lines 183 and 158-159)
\* returns the error, println! (lines 105-106) panics. The template is
\* written after the header and before the notice.
OnSink(r, created, f, sink) ==
  IF ~sink.fails \/ Len(r.out) <= sink.after
  THEN [res |-> IF r.ok THEN "Ok" ELSE "Err", out |-> r.out, trace |-> r.trace,
        msg |-> r.msg, fs |-> created.fs]
  ELSE LET what == r.trace[sink.after + 1].kind IN
       [res |-> IF what = "notice" THEN "Panic" ELSE "Err",
        out |-> SubSeq(r.out, 1, sink.after),
        trace |-> SubSeq(r.trace, 1, sink.after),
        msg |-> CASE what = "header" -> Bytes["Failed to write to stdout"]
                  [] what = "notice" -> Bytes["failed printing to stdout"]
                  [] what = "entry" -> Bytes["Failed to write to output"],
        fs |-> IF what = "header" THEN f ELSE created.fs]

\* The kind of error an invalid root gives (validate_root), and the message
\* of run_app and clear_ignore_files for it.
RootError(f) == IF ~Exists(f, <<>>) THEN "DoesNotExist" ELSE "NotADirectory"

RootMessage(f) ==
  Bytes["Path '"] \o Bytes[RootDisplay]
    \o (IF ~Exists(f, <<>>) THEN Bytes["' does not exist"]
        ELSE Bytes["' is not a directory"])

RenderTo(o) ==
  /\ fs' = o.fs
  /\ out' = o.out
  /\ trace' = o.trace
  /\ res' = o.res
  /\ msg' = o.msg

RenderEach(r, created, sinks) ==
  \E sink \in sinks : RenderTo(OnSink(r, created, fs, sink))

\* run_app without --clear, its standard output being one of sinks: the
\* root is validated, then printed.
RenderOn(sinks) ==
  /\ \E ord \in ReadDirOrders :
       IF ValidRoot(fs)
       THEN RenderEach(print_directory_tree(fs, vcs, ord), EnsureIgnoreFile(fs), sinks)
       ELSE /\ res' = RootError(fs)
            /\ msg' = RootMessage(fs)
            /\ out' = <<>>
            /\ trace' = <<>>
            /\ fs' = fs
  /\ prevOut' = IF op = "render" THEN <<out>> ELSE <<>>
  /\ op' = "render"
  /\ UNCHANGED <<vcs, removed, warnings, events, call, procs>>

\* A render whose output is taken whole.
Render == RenderOn({GoodSink})

\* A render whose output may fail at some line.
RenderFaulty == RenderOn({GoodSink} \cup FailingSinks)

SweepTo(st) ==
  /\ fs' = st.fs
  /\ removed' = st.count
  /\ warnings' = st.errors
  /\ events' = st.events
  /\ res' = "Ok"
  /\ msg' = <<>>

\* run_app with --clear: clear_ignore_files. Of what it prints, the count of
\* line 94 is kept in removed, the number of recorded errors in warnings and
\* the lines of the loop in events.
Sweep ==
  /\ \E ord \in ReadDirOrders :
       IF ValidRoot(fs)
       THEN SweepTo(clear_ignore_files(fs, ord))
       ELSE /\ res' = RootError(fs)
            /\ msg' = RootMessage(fs)
            /\ UNCHANGED <<fs, removed, warnings, events>>
  /\ out' = <<>>
  /\ trace' = <<>>
  /\ prevOut' = IF op = "render" THEN <<out>> ELSE <<>>
  /\ op' = "sweep"
  /\ UNCHANGED <<vcs, call, procs>>

\* The user edits the root's marker file by hand.
Edit ==
  /\ <<".tree_ignore">> \in DOMAIN fs
  /\ fs[<<".tree_ignore">>].kind = "file"
  /\ \E c \in EditContents :
       /\ c # fs[<<".tree_ignore">>].content
       /\ fs' = [fs EXCEPT ![<<".tree_ignore">>].content = c]
  /\ op' = "edit"
  /\ prevOut' = <<>>
  /\ UNCHANGED <<vcs, out, trace, res, msg, removed, warnings, events, call, procs>>

Next == Render \/ Sweep \/ Edit

Spec == Init /\ [][Next]_vars

SpecLinks == InitLinks /\ [][Next]_vars

\* The entry names and patterns should_ignore is called with directly, after
\* test_should_ignore_comprehensive_pattern_matching, and the lines of the
\* .tree_ignore files read_ignore_patterns is called on directly, after
\* test_read_ignore_patterns_with_complex_content.
MaxPatterns == 2
MaxLines == 2
EntryNames == {"foo.swp", "*.swp", "target", "Target", "main.rs"}
PatternNames == {"*.swp", "Foo.swp", "foo.swp", "target", "Target"}
FileLines ==
  {" target", "visible.txt  ", "  # indented comment", "", "   ", "a b",
   "# only comments", "target # build", "main.rs"}

SeqsUpTo(S, n) == UNION {[1..k -> S] : k \in 0..n}

\* The byte strings of a sequence of strings.
AsBytes(strings) == [i \in 1..Len(strings) |-> Bytes[strings[i]]]

InitFn ==
  /\ fs = MakeFs({})
  /\ vcs = NoRepo
  /\ Fresh

\* should_ignore(entry, ignore_patterns) on an entry named name.
CallShouldIgnore ==
  /\ \E name \in EntryNames, pats \in SeqsUpTo(PatternNames, MaxPatterns) :
       call' = [NoCall EXCEPT !.fn = "should_ignore", !.name = name,
                              !.patterns = pats,
                              !.hit = should_ignore(name, AsBytes(pats))]
  /\ UNCHANGED <<fs, vcs, out, trace, res, msg, removed, warnings, events, op,
                 prevOut, procs>>

\* read_ignore_patterns(dir) on a directory that has no .tree_ignore or one
\* with the given lines.
CallReadIgnorePatterns ==
  /\ \/ \E lines \in SeqsUpTo(FileLines, MaxLines) :
          LET r == read_ignore_patterns(
                     MakeFs({ << <<".tree_ignore">>, File(lines, TRUE) >> }), <<>>)
          IN call' = [NoCall EXCEPT !.fn = "read_ignore_patterns",
                                    !.present = TRUE, !.lines = lines,
                                    !.ok = r.ok, !.returned = r.patterns]
     \/ LET r == read_ignore_patterns(fs, <<>>)
        IN /\ ~Exists(fs, <<".tree_ignore">>)
           /\ call' = [NoCall EXCEPT !.fn = "read_ignore_patterns",
                                     !.ok = r.ok, !.returned = r.patterns]
  /\ UNCHANGED <<fs, vcs, out, trace, res, msg, removed, warnings, events, op,
                 prevOut, procs>>

NextFn == CallShouldIgnore \/ CallReadIgnorePatterns

SpecFn == InitFn /\ [][NextFn]_vars

\* Renders that run concurrently on one root. Each goes through
\* print_directory_tree in steps, each step one access to the file system:
\* "check" (line 186, exists), "create" and "write" (lines 102-103,
\* fs::write: File::create, then write_all), "read" (line 192) and "print"
\* (lines 194-224); the header and the notice lines touch no file.
MaxRenderers == 2
Renderers == 1..MaxRenderers

RaceFeatures == {"hidden", "sort", "nested"}

InitRace ==
  /\ \E S \in SUBSET RaceFeatures :
       fs = MakeFs(UNION {FeatureEntries(k) : k \in S})
  /\ vcs = NoRepo
  /\ out = <<>>
  /\ trace = <<>>
  /\ res = "Ok"
  /\ msg = <<>>
  /\ removed = 0
  /\ warnings = 0
  /\ events = <<>>
  /\ op = "init"
  /\ prevOut = <<>>
  /\ call = NoCall
  /\ procs = [i \in Renderers |->
               [pc |-> "check", ok |-> TRUE, created |-> FALSE, patterns |-> <<>>]]

RaceFrame ==
  UNCHANGED <<vcs, out, trace, res, msg, removed, warnings, events, op, prevOut, call>>

\* Line 186: ignore_file_path.exists().
Check(i) ==
  /\ procs[i].pc = "check"
  /\ procs' = [procs EXCEPT ![i].pc = IF Exists(fs, <<TreeIgnore>>) THEN "read"
                                       ELSE "create"]
  /\ UNCHANGED fs
  /\ RaceFrame

\* Lines 102-103, first half: fs::write opens the file.
Create(i) ==
  /\ procs[i].pc = "create"
  /\ LET w == CreateTruncate(fs, <<TreeIgnore>>) IN
       /\ fs' = w.fs
       /\ procs' = [procs EXCEPT ![i].pc = IF w.ok THEN "write" ELSE "done",
                                  ![i].ok = w.ok]
  /\ RaceFrame

\* Lines 102-103, second half: write_all of the template; the notice lines
\* follow (lines 105-106).
WriteAll(i) ==
  /\ procs[i].pc = "write"
  /\ LET w == WriteFile(fs, <<TreeIgnore>>, DefaultContent) IN
       /\ fs' = w.fs
       /\ procs' = [procs EXCEPT ![i].pc = IF w.ok THEN "read" ELSE "done",
                                  ![i].ok = w.ok, ![i].created = w.ok]
  /\ RaceFrame

\* Line 192: read_ignore_patterns(path)?.
ReadPatterns(i) ==
  /\ procs[i].pc = "read"
  /\ LET rp == read_ignore_patterns(fs, <<>>) IN
       procs' = [procs EXCEPT ![i].pc = IF rp.ok THEN "print" ELSE "done",
                              ![i].ok = rp.ok, ![i].patterns = rp.patterns]
  /\ UNCHANGED fs
  /\ RaceFrame

\* Lines 194-226: the walks and the tree, with the patterns read before.
PrintTree(i) ==
  /\ procs[i].pc = "print"
  /\ \E ord \in ReadDirOrders :
       procs' = [procs EXCEPT ![i].pc = "done",
                              ![i].ok = PrintFiltered(fs, vcs, procs[i].patterns, ord).ok]
  /\ UNCHANGED fs
  /\ RaceFrame

NextRace ==
  \E i \in Renderers :
    Check(i) \/ Create(i) \/ WriteAll(i) \/ ReadPatterns(i) \/ PrintTree(i)

SpecRace == InitRace /\ [][NextRace]_vars

NextFaults == RenderFaulty \/ Sweep

SpecFaults == InitFaults /\ [][NextFaults]_vars

(***************************************************************************)
(* The claims                                                              *)
(***************************************************************************)

Marker == <<".tree_ignore">>

\* The indexes of the entry lines of the last render; trace gives each its path.
EntryIndexes == {i \in 1..Len(trace) : trace[i].kind = "entry"}

\* The patterns of the root's marker file as it stands.
RootPatterns == read_ignore_patterns(fs, <<>>).patterns

\* C1: a render leaves a marker that exists in the root as it is, node and
\* content as read through the path, whatever the content and whatever
\* renders and manual edits came before.
C1_ExistingMarkerUntouched ==
  [][(op' = "render" /\ Exists(fs, Marker))
       => /\ Marker \in DOMAIN fs'
          /\ fs'[Marker] = fs[Marker]
          /\ ReadToString(fs', Marker) = ReadToString(fs, Marker)]_vars

\* A render has just run on a marker file whose content only a manual edit
\* can have produced.
C1_Witness ==
  /\ op = "render"
  /\ Marker \in DOMAIN fs
  /\ fs[Marker].kind = "file"
  /\ fs[Marker].content = <<"sub">>

\* The regular files named .tree_ignore.
MarkerFiles(f) ==
  {p \in DOMAIN f : FileName(p) = TreeIgnore /\ f[p].kind = "file"}

\* C2: a render of a valid root with no entry named .tree_ignore creates
\* exactly one marker file, the root's, holding the default template.
C2_CreatesOneDefaultMarker ==
  [][(op' = "render" /\ ValidRoot(fs) /\ Marker \notin DOMAIN fs)
       => /\ MarkerFiles(fs') \ MarkerFiles(fs) = {Marker}
          /\ fs'[Marker].content = DefaultContent]_vars

\* A render has just created the marker: its notice is in the output.
C2_Witness ==
  /\ op = "render"
  /\ Len(out) >= 3
  /\ out[2] = CreatedNotice[1]
  /\ Marker \in DOMAIN fs
  /\ fs[Marker].content = DefaultContent
  /\ \E p \in DOMAIN fs : Len(p) = 2

\* C3: no line of a render is for an entry whose name, or the name of one of
\* the directories above it, equals a pattern of the root's marker file.
C3_PatternEntriesAbsent ==
  op = "render" =>
    \A i \in EntryIndexes :
      \A k \in 1..Len(trace[i].path) :
        ~should_ignore(trace[i].path[k], RootPatterns)

\* A version-control rule of the enclosing repository names the entry.
VcsExcluded(v, name) == v.repo /\ name \in (v.gitignore \cup v.exclude)

\* C4: no line of a render is for an entry that a .gitignore rule or the
\* repository's exclude list excludes, or that lies below such an entry.
C4_VcsEntriesAbsent ==
  op = "render" =>
    \A i \in EntryIndexes :
      \A k \in 1..Len(trace[i].path) : ~VcsExcluded(vcs, trace[i].path[k])

\* The order the claim asks of two entries of one directory.
ComesFirst(a, b) ==
  \/ IsDir(fs, a) /\ ~IsDir(fs, b)
  \/ IsDir(fs, a) = IsDir(fs, b) /\ LexLess(Bytes[Last(a)], Bytes[Last(b)])

\* C5: of two entries of the same directory, the one written first is a
\* directory while the other is not, or both are of one kind and its name
\* is the smaller in byte order.
C5_DirsFirstThenByName ==
  op = "render" =>
    \A i, j \in EntryIndexes :
      (i < j /\ Front(trace[i].path) = Front(trace[j].path))
        => ComesFirst(trace[i].path, trace[j].path)

LineOf(p) == CHOOSE i \in EntryIndexes : trace[i].path = p

\* The example of the claim, and an upper-case name before a lower-case one.
C5_Witness ==
  /\ op = "render"
  /\ {<<"m_dir">>, <<"z_dir">>, <<"Zeta.txt">>, <<"a_file.txt">>, <<"b_file.txt">>}
       \subseteq {trace[i].path : i \in EntryIndexes}
  /\ LineOf(<<"m_dir">>) < LineOf(<<"z_dir">>)
  /\ LineOf(<<"z_dir">>) < LineOf(<<"Zeta.txt">>)
  /\ LineOf(<<"Zeta.txt">>) < LineOf(<<"a_file.txt">>)
  /\ LineOf(<<"a_file.txt">>) < LineOf(<<"b_file.txt">>)

\* line ends with the bytes tail.
EndsWith(line, tail) ==
  /\ Len(line) >= Len(tail)
  /\ SubSeq(line, Len(line) - Len(tail) + 1, Len(line)) = tail

\* C6: the line of a directory ends with its name and one "/", the line of
\* any other entry with its name.
C6_DirectoryLinesEndWithSlash ==
  op = "render" =>
    \A i \in EntryIndexes :
      IF IsDir(fs, trace[i].path)
      THEN EndsWith(out[i], Bytes[Last(trace[i].path)] \o <<47>>)
      ELSE EndsWith(out[i], Bytes[Last(trace[i].path)])

\* C7: a render that directly follows a render writes the same lines.
C7_ConsecutiveRendersAgree ==
  (op = "render" /\ prevOut # <<>>) => out = prevOut[1]

\* C8: a sweep of a tree whose marker files can all be deleted deletes them
\* all and reports their number, and a sweep right after it reports 0.
C8_SweepCountsMarkerFiles ==
  [][/\ (op' = "sweep" /\ ValidRoot(fs)
           /\ \A p \in MarkerFiles(fs) : fs[p].deletable)
          => /\ MarkerFiles(fs') = {}
             /\ removed' = Cardinality(MarkerFiles(fs))
     /\ (op = "sweep" /\ op' = "sweep" /\ MarkerFiles(fs) = {})
          => removed' = 0]_vars

\* C9: every entry a sweep removes is a regular file named .tree_ignore;
\* directories and symbolic links stay.
C9_SweepRemovesOnlyRegularMarkers ==
  [][op' = "sweep"
       => \A p \in DOMAIN fs \ DOMAIN fs' :
            fs[p].kind = "file" /\ FileName(p) = TreeIgnore]_vars

\* C10: an entry whose name is not exactly .tree_ignore exists after a
\* sweep as it was before.
C10_OtherNamesSurviveSweep ==
  [][op' = "sweep"
       => \A p \in DOMAIN fs :
            FileName(p) # TreeIgnore => (p \in DOMAIN fs' /\ fs'[p] = fs[p])]_vars

\* A sweep has removed markers from a tree holding the similar names.
C10_Witness ==
  /\ op = "sweep"
  /\ removed >= 2
  /\ {<<"tree_ignore">>, <<".tree_ignoreX">>, <<"test.tree_ignore">>}
       \subseteq DOMAIN fs

\* The entries named .tree_ignore, of any kind.
MarkerNamed(f) == {p \in DOMAIN f : p # <<>> /\ Last(p) = TreeIgnore}

\* The walk of a sweep comes to p: every directory above it can be listed.
Reached(f, p) == \A k \in 0..(Len(p) - 1) : f[SubSeq(p, 1, k)].readable

\* The positions in events of what happened to markers and to the walk.
EventsOf(what) == {i \in 1..Len(events) : events[i].what = what}

EventPaths(what) == {events[i].path : i \in EventsOf(what)}

\* C12: a removal that fails is recorded as a warning, one for each marker
\* that could not be unlinked, the sweep still returns success, and the
\* count it reports is the number of entries that are gone, no more.
C12_FailedRemovalWarnedNotCounted ==
  [][(op' = "sweep" /\ ValidRoot(fs))
       => /\ res' = "Ok"
          /\ EventPaths("failed")' =
               {p \in MarkerNamed(fs) : Reached(fs, p) /\ ~RemoveFile(fs, p).ok}
          /\ warnings' = Cardinality(EventsOf("failed")' \cup EventsOf("walk_error")')
          /\ EventPaths("removed")' = DOMAIN fs \ DOMAIN fs'
          /\ removed' = Cardinality(DOMAIN fs \ DOMAIN fs')]_vars

\* A sweep met two markers it could not unlink and removed others.
C12_Witness ==
  /\ op = "sweep"
  /\ res = "Ok"
  /\ Cardinality(EventsOf("failed")) = 2
  /\ warnings = 2
  /\ removed >= 2

\* The directories the walk comes to and cannot list.
DeniedDirs(f) ==
  {d \in DOMAIN f : f[d].kind = "dir" /\ ~f[d].readable /\ Reached(f, d)}

C14_RenderThenSweepOnFreshRoot ==
  [][/\ (op' = "render" /\ ValidRoot(fs) /\ MarkerNamed(fs) = {})
          => /\ Exists(fs', Marker)
             /\ MarkerNamed(fs') = {Marker}
             /\ fs'[Marker].kind = "file"
             /\ NoticeMark \in {trace'[i] : i \in 1..Len(trace')}
     /\ (/\ op = "render"
         /\ NoticeMark \in {trace[i] : i \in 1..Len(trace)}
         /\ MarkerNamed(fs) = {Marker}
         /\ fs[Marker].kind = "file"
         /\ op' = "sweep")
          => /\ res' = "Ok"
             /\ removed' = 1
             /\ warnings' = 0
             /\ MarkerNamed(fs') = {}]_vars

\* A sweep has run right after the render that created the marker of a tree
\* with directories: it reported 1 and no marker is left.
C14_Witness ==
  /\ op = "sweep"
  /\ prevOut # <<>>
  /\ Len(prevOut[1]) >= 5
  /\ prevOut[1][2] = CreatedNotice[1]
  /\ removed = 1
  /\ events = <<Event("removed", Marker)>>
  /\ MarkerNamed(fs) = {}
  /\ \E p \in DOMAIN fs : Len(p) = 2

\* needle occurs in hay.
Contains(hay, needle) ==
  \E i \in 0..(Len(hay) - Len(needle)) : SubSeq(hay, i + 1, i + Len(needle)) = needle

\* C15: a render or a sweep of a root that does not exist ends with the
\* error for a missing path, of a root that is no directory with the error
\* for that, each message naming the root; nothing is written, no entry is
\* visited, and the file system stays as it is.
C15_InvalidRootRejectedFirst ==
  [][(op' \in {"render", "sweep"} /\ (<<>> \notin DOMAIN fs \/ fs[<<>>].kind # "dir"))
       => /\ IF <<>> \notin DOMAIN fs
             THEN res' = "DoesNotExist" /\ msg' = Bytes["Path '/proj' does not exist"]
             ELSE res' = "NotADirectory" /\ msg' = Bytes["Path '/proj' is not a directory"]
          /\ Contains(msg', Bytes[RootDisplay])
          /\ fs' = fs
          /\ out' = <<>>
          /\ events' = <<>>
          /\ removed' = 0]_vars

\* A sweep after a render, both of a root that is a regular file.
C15_Witness ==
  /\ op = "sweep"
  /\ prevOut = << <<>> >>
  /\ res = "NotADirectory"
  /\ fs = FileRoot

\* C16: the output of a render that succeeds is the header line, holding
\* the root path, and after it entry lines only.
C16_HeaderThenEntryLinesOnly ==
  (op = "render" /\ res = "Ok")
    => /\ Len(out) >= 1
       /\ trace[1] = HeaderMark
       /\ out[1] = Bytes[RootDisplay]
       /\ \A i \in 2..Len(trace) : trace[i].kind = "entry"

\* C17: the render of an empty directory writes the header line and after
\* it one line, that of the marker it has just created.
C17_EmptyDirectoryOutput ==
  [][(op' = "render" /\ DOMAIN fs = {<<>>} /\ fs[<<>>].kind = "dir")
       => out' = << Bytes[RootDisplay], ConnLast \o Bytes[TreeIgnore] >>]_vars

\* a is an initial part of b.
IsPrefix(a, b) == Len(a) <= Len(b) /\ SubSeq(b, 1, Len(a)) = a

\* The messages with which a failed write and a failed listing end a render.
WriteFailures ==
  { Bytes["Failed to write to stdout"], Bytes["Failed to write to output"],
    Bytes["failed printing to stdout"] }
ListingFailure == Bytes["Failed to read directory"]

\* C18: a render in which a write to the output or the listing of a
\* directory fails returns an error, and its output is what had been
\* written until then: an initial part of what the render writes when
\* nothing fails, ending, when a listing failed, with the line of the
\* directory that could not be listed.
C18_FailureReturnsErrorKeepsOutput ==
  [][(op' = "render" /\ ValidRoot(fs) /\ msg' \in WriteFailures \cup {ListingFailure})
       => /\ res' = "Err"
          /\ \E ord \in ReadDirOrders :
               IsPrefix(out', print_directory_tree(fs, vcs, ord).out)
          /\ msg' = ListingFailure
               => /\ trace'[Len(trace')].kind = "entry"
                  /\ trace'[Len(trace')].path \in DeniedDirs(fs)]_vars

\* C19: a render of a root whose marker exists and cannot be read returns
\* the error of reading it and writes no entry line; a render that succeeds
\* has read its patterns from a marker that can be read.
C19_UnreadableMarkerIsAnError ==
  [][/\ (op' = "render" /\ ValidRoot(fs) /\ Exists(fs, Marker)
           /\ ~ReadToString(fs, Marker).ok)
          => /\ res' = "Err"
             /\ msg' = Bytes["Failed to read ignore file: "]
                         \o Bytes[RootDisplay] \o Bytes["/"] \o Bytes[TreeIgnore]
             /\ out' = <<Bytes[RootDisplay]>>
             /\ fs' = fs
     /\ (op' = "render" /\ res' = "Ok") => ReadToString(fs', Marker).ok]_vars

\* A render has failed on a marker that is a directory.
C19_Witness ==
  /\ op = "render"
  /\ res = "Err"
  /\ Marker \in DOMAIN fs
  /\ fs[Marker].kind = "dir"
  /\ out = <<Bytes[RootDisplay]>>
  /\ \E p \in DOMAIN fs : Len(p) = 2 /\ p[1] # TreeIgnore

\* The name is hidden by no pattern of the root's marker and by no
\* version-control rule.
Visible(name) == ~should_ignore(name, RootPatterns) /\ ~VcsExcluded(vcs, name)

\* C20: when the base name of the root equals a pattern or is named by a
\* version-control rule, a render still writes the header and a line for
\* every entry of the root that is not hidden itself.
C20_RootNeverHidden ==
  (op = "render" /\ res = "Ok" /\ ~Visible("proj"))
    => /\ trace[1] = HeaderMark
       /\ out[1] = Bytes[RootDisplay]
       /\ \A p \in DOMAIN fs :
            (Len(p) = 1 /\ Visible(p[1])) => \E i \in EntryIndexes : trace[i].path = p

\* A render of a root whose name is both a pattern and named by a rule of
\* the repository has written lines for entries of the root.
C20_Witness ==
  /\ op = "render"
  /\ res = "Ok"
  /\ should_ignore("proj", RootPatterns)
  /\ VcsExcluded(vcs, "proj")
  /\ Cardinality({i \in EntryIndexes : Len(trace[i].path) = 1}) >= 4
  /\ \E i \in EntryIndexes : Len(trace[i].path) = 2

\* The entries outside the tree of the root.
Outside(f) == {p \in DOMAIN f : p # <<>> /\ Head(p) = Up}

\* The path p leads through a symbolic link: an entry above it is one.
ThroughLink(f, p) ==
  \E k \in 1..(Len(p) - 1) :
    SubSeq(p, 1, k) \in DOMAIN f /\ f[SubSeq(p, 1, k)].kind = "symlink"

\* C21: a sweep of a valid root ends with success also when symbolic links
\* form a cycle, comes to the markers at every depth below the root (each
\* one that can be unlinked is gone afterwards), and follows no symbolic
\* link: nothing it tries to remove lies behind a link, the walk reports no
\* error for a link, and what lies outside the root, a marker reachable
\* only through a link included, is after the sweep as it was before.
C21_SweepFollowsNoLinks ==
  [][(op' = "sweep" /\ ValidRoot(fs))
       => /\ res' = "Ok"
          /\ \A p \in Outside(fs) : p \in DOMAIN fs' /\ fs'[p] = fs[p]
          /\ \A i \in 1..Len(events') : ~ThroughLink(fs, events'[i].path)
          /\ EventsOf("walk_error")' = {}
          /\ \A p \in MarkerNamed(fs) \ Outside(fs) :
               RemoveFile(fs, p).ok => p \notin DOMAIN fs']_vars

\* A sweep removed markers one, two and three levels below the root of a
\* tree with a cycle of links, a link to a directory of the tree that held
\* a marker and a link to a directory outside the root, whose marker stays.
C21_Witness ==
  /\ op = "sweep"
  /\ res = "Ok"
  /\ {Marker, <<"sub", ".tree_ignore">>, <<"m_dir", "z_dir", ".tree_ignore">>}
       \subseteq EventPaths("removed")
  /\ {<<"link">>, <<"sub", "up">>, <<"away">>} \subseteq DOMAIN fs
  /\ fs[<<"sub", "up">>].target = <<"sub">>
  /\ Resolve(fs, <<"away", ".tree_ignore">>).ok
  /\ <<Up, "ext", ".tree_ignore">> \in DOMAIN fs

\* C22: should_ignore returns true exactly when the entry's name is one of
\* the patterns, compared as strings: a name that differs from a pattern in
\* case, or that a pattern would match as a glob, is not ignored, and with
\* no patterns nothing is.
C22_IgnoresExactNamesOnly ==
  call.fn = "should_ignore"
    => /\ call.hit <=> (call.name \in {call.patterns[i] : i \in DOMAIN call.patterns})
       /\ call.patterns = <<>> => ~call.hit
       /\ (call.name = "foo.swp" /\ call.hit)
            => "foo.swp" \in {call.patterns[i] : i \in DOMAIN call.patterns}

\* should_ignore said no for foo.swp against the patterns *.swp and Foo.swp.
C22_Witness ==
  /\ call.fn = "should_ignore"
  /\ call.name = "foo.swp"
  /\ call.patterns = <<"*.swp", "Foo.swp">>
  /\ ~call.hit

\* What read_ignore_patterns is to make of a line: the pattern it holds, or
\* nothing ("" stands for no pattern).
PatternOf ==
  (" target" :> "target")
  @@ ("visible.txt  " :> "visible.txt")
  @@ ("  # indented comment" :> "")
  @@ ("" :> "")
  @@ ("   " :> "")
  @@ ("a b" :> "a b")
  @@ ("# only comments" :> "")
  @@ ("target # build" :> "target # build")
  @@ ("main.rs" :> "main.rs")

RECURSIVE PatternsOf(_)
PatternsOf(lines) ==
  IF lines = <<>> THEN <<>>
  ELSE (IF PatternOf[Head(lines)] = "" THEN <<>> ELSE <<Bytes[PatternOf[Head(lines)]]>>)
         \o PatternsOf(Tail(lines))

\* C23: read_ignore_patterns returns success and no patterns when the
\* directory has no .tree_ignore; on a file it returns, in the order of the
\* file, the lines that trimmed of surrounding whitespace are neither empty
\* nor start with #, each without the whitespace around it.
C23_PatternsAreTrimmedLines ==
  call.fn = "read_ignore_patterns"
    => /\ call.ok
       /\ call.returned = IF call.present THEN PatternsOf(call.lines) ELSE <<>>

\* An indented comment was dropped and a pattern came back without its
\* trailing spaces; a line with leading space kept its place after it.
C23_Witness ==
  /\ call.fn = "read_ignore_patterns"
  /\ call.present
  /\ \/ call.lines = <<"  # indented comment", "visible.txt  ">>
        /\ call.returned = <<Bytes["visible.txt"]>>
     \/ call.lines = <<"visible.txt  ", " target">>
        /\ call.returned = <<Bytes["visible.txt"], Bytes["target"]>>

\* The glyphs of the claim in UTF-8: the corner and the branch connector,
\* and the two continuations.
Corner == <<226, 148, 148, 226, 148, 128, 226, 148, 128, 32>>
Branch == <<226, 148, 156, 226, 148, 128, 226, 148, 128, 32>>
Blank == <<32, 32, 32, 32>>
Bar == <<226, 148, 130, 32, 32, 32>>

\* The entry with the line i is the last one written of its directory.
LastOfLevel(i) ==
  \A j \in EntryIndexes :
    (Len(trace[j].path) = Len(trace[i].path)
       /\ Front(trace[j].path) = Front(trace[i].path)) => j <= i

\* The prefix the claim gives the entries of the directory d.
RECURSIVE PrefixBelow(_)
PrefixBelow(d) ==
  IF d = <<>> THEN <<>>
  ELSE PrefixBelow(Front(d)) \o (IF LastOfLevel(LineOf(d)) THEN Blank ELSE Bar)

TemplateNames ==
  {DefaultContent[i] : i \in {j \in 1..Len(DefaultContent) :
                                IsPatternLine(Trim(Bytes[DefaultContent[j]]))}}

NestedMarkers(f) ==
  {p \in DOMAIN f : Len(p) >= 2 /\ Last(p) = TreeIgnore /\ f[p].kind = "file"}

\* The file system f with every marker file below the root's level empty.
NestedEmptied(f) ==
  [p \in DOMAIN f |-> IF p \in NestedMarkers(f) THEN File(<<>>, f[p].deletable)
                       ELSE f[p]]

\* C26: what a render writes is what it would write were the .tree_ignore
\* files of the subdirectories empty: their lines hide nothing, and an
\* entry that only such a file names, beside it, has its line.
C26_NestedMarkersChangeNothing ==
  [][(op' = "render" /\ ValidRoot(fs))
       => /\ out' = print_directory_tree(NestedEmptied(fs), vcs, NameOrder).out
          /\ res' = "Ok"
               => \A m \in NestedMarkers(fs) :
                    \A k \in 1..Len(fs[m].content) :
                      LET e == Append(Front(m), fs[m].content[k]) IN
                      (/\ e \in DOMAIN fs'
                       /\ Front(m) \in {trace'[i].path : i \in EntryIndexes'}
                       /\ ~should_ignore(Last(e), read_ignore_patterns(fs', <<>>).patterns))
                        => e \in {trace'[i].path : i \in EntryIndexes'}]_vars

\* A render wrote the lines of sub/target and of what lies in it, target
\* being named in sub/.tree_ignore and not in the root's own file.
C26_Witness ==
  /\ op = "render"
  /\ res = "Ok"
  /\ <<"sub", ".tree_ignore">> \in NestedMarkers(fs)
  /\ \E j \in DOMAIN fs[<<"sub", ".tree_ignore">>].content :
       fs[<<"sub", ".tree_ignore">>].content[j] = "target"
  /\ ~should_ignore("target", RootPatterns)
  /\ {<<"sub", "target">>, <<"sub", "target", "main.rs">>, <<"sub", ".tree_ignore">>}
       \subseteq {trace[i].path : i \in EntryIndexes}

\* C27: of the renders that run concurrently on a root that had no
\* .tree_ignore none fails, at whatever step the others are, and when all
\* have finished the root's .tree_ignore is a regular file that holds the
\* template.
C27_ConcurrentRendersSucceed ==
  procs # <<>>
    => /\ \A i \in DOMAIN procs : procs[i].ok
       /\ (\A i \in DOMAIN procs : procs[i].pc = "done")
            => /\ Marker \in DOMAIN fs
               /\ fs[Marker].kind = "file"
               /\ fs[Marker].content = DefaultContent

\* Two renders both found no file and both wrote it; one of them read the
\* file while the other had it emptied, and printed without patterns. Both
\* have finished.
C27_Witness ==
  /\ procs # <<>>
  /\ \A i \in DOMAIN procs : procs[i].pc = "done" /\ procs[i].ok
  /\ procs[1].created /\ procs[2].created
  /\ \E i, j \in DOMAIN procs :
       procs[i].patterns = <<>> /\ procs[j].patterns # <<>>

\* C28: every render ends by returning, with Ok or with an error; none
\* ends in a panic, whatever the tree holds and wherever a write to the
\* output fails.
C28_RenderNeverPanics ==
  op = "render" => res \in {"Ok", "Err", "DoesNotExist", "NotADirectory"}

\* The verdict of the version-control rules on a name, as git gives it: a
\* rule of .gitignore or of the exclude list names it and no rule of
\* .gitignore whitelists it.
GitIgnores(v, name) ==
  v.repo /\ name \in (v.gitignore \cup v.exclude) \ v.whitelist

\* The entries below the root, and those of them the last render wrote.
BelowRoot == {p \in DOMAIN fs : p # <<>> /\ p \notin Outside(fs)}
Rendered == {trace[i].path : i \in EntryIndexes}

\* C29: after a successful render, every entry below the root that no
\* version-control rule and no pattern excludes, itself or a directory
\* above it, has exactly one line; the entries without a line are those the
\* unfiltered walk yields and the filtered walk does not; and every path of
\* the filtered walk is one of the unfiltered walk.
C29_HiddenIsUnfilteredMinusFiltered ==
  (op = "render" /\ res = "Ok")
    => LET filtered_entries == Walk(fs, vcs, <<>>, TRUE, TRUE, RootPatterns)
           all_entries == Walk(fs, vcs, <<>>, FALSE, FALSE, <<>>)
       IN /\ \A p \in BelowRoot :
               (\A k \in 1..Len(p) :
                  ~GitIgnores(vcs, p[k]) /\ ~should_ignore(p[k], RootPatterns))
                 => Cardinality({i \in EntryIndexes : trace[i].path = p}) = 1
          /\ BelowRoot \ Rendered = all_entries \ filtered_entries
          /\ filtered_entries \subseteq all_entries

\* C30: a render, whether it succeeds or fails, leaves every entry other
\* than the root's .tree_ignore as it was, creates no other entry, and
\* leaves a .tree_ignore that was there as it was; all it may do is create
\* the root's .tree_ignore as a regular file.
C30_RenderOnlyCreatesMarker ==
  [][op' = "render"
       => /\ \A p \in (DOMAIN fs \cup DOMAIN fs') \ {Marker} :
               p \in DOMAIN fs /\ p \in DOMAIN fs' /\ fs'[p] = fs[p]
          /\ Marker \in DOMAIN fs => (Marker \in DOMAIN fs' /\ fs'[Marker] = fs[Marker])
          /\ Marker \in DOMAIN fs' \ DOMAIN fs => fs'[Marker].kind = "file"]_vars

====
